---- MODULE Spec2Model ----
(***************************************************************************)
(* Model of the Asahi Linux installer front end (src/src/main.py):         *)
(* the firmware resolver (choose_ipsw, choice) and the boot-completion     *)
(* protocol (step2, set_reduced_security, startup_disk, step2_indirect).   *)
(*                                                                         *)
(* A version string is modelled by the sequence of its dot-separated       *)
(* numeric fields ("12.1" is <<12, 1>>; the "iBoot-" prefix of firmware    *)
(* strings is dropped).  A boot mode string is modelled by the sequence    *)
(* of its words.                                                           *)
(***************************************************************************)
EXTENDS Naturals, Integers, Sequences, FiniteSets, TLC

\* ------------------------------------------------------------------ bounds
MaxCatalog == 2
MaxNvramWrites == 2
MaxBputilFails == 2
MaxParts == 2

\* ------------------------------------------------------- version ordering
RECURSIVE StripZeros(_)
StripZeros(s) ==
    IF Len(s) > 0 /\ s[Len(s)] = 0 THEN StripZeros(SubSeq(s, 1, Len(s) - 1))
    ELSE s

\* util.split_ver: the ordered integer sequence of a version string, in the
\* form in which missing trailing components count as 0.
split_ver(s) == StripZeros(s)

MinNat(a, b) == IF a <= b THEN a ELSE b

\* Python's ordering of two tuples of integers.
TupleLt(a, b) ==
    LET n == MinNat(Len(a), Len(b))
        D == {i \in 1..n : a[i] /= b[i]}
    IN  IF D = {} THEN Len(a) < Len(b)
        ELSE LET k == CHOOSE i \in D : \A j \in D : i <= j
             IN  a[k] < b[k]

TupleLeq(a, b) == a = b \/ TupleLt(a, b)

TupleMax(a, b) == IF TupleLt(a, b) THEN b ELSE a

\* ------------------------------------------------------------ static data
CHIP_MIN_VER ==
    (33027 :> <<11, 0>>) @@ (24576 :> <<12, 0>>) @@ (24577 :> <<12, 0>>)

DEVICE_MIN_VER ==
    ("j274ap" :> <<11, 0>>) @@ ("j293ap" :> <<11, 0>>) @@ ("j313ap" :> <<11, 0>>)
    @@ ("j456ap" :> <<11, 3>>) @@ ("j457ap" :> <<11, 3>>)
    @@ ("j314cap" :> <<12, 0>>) @@ ("j314sap" :> <<12, 0>>)
    @@ ("j316cap" :> <<12, 0>>) @@ ("j316sap" :> <<12, 0>>)

\* dict.get(key, default)
DictGet(d, k, dflt) == IF k \in DOMAIN d THEN d[k] ELSE dflt

IPSW(v, mm, mi, p) == [version |-> v, min_macos |-> mm, min_iboot |-> mi, paired_sfr |-> p]

\* The release the installer ships with.
IPSW_12_1 == IPSW(<<12, 1>>, <<12, 1>>, <<7429, 61, 2>>, FALSE)

\* Releases a catalog is drawn from: the shipped one and two more that
\* differ from it in version, in each minimum and in paired-recovery support.
ReleasePool ==
    { IPSW_12_1,
      IPSW(<<11, 0>>, <<11>>, <<7000>>, FALSE),
      IPSW(<<11, 3>>, <<12, 1>>, <<7000>>, TRUE) }

NoRepeat(s) == \A i, j \in 1..Len(s) : i /= j => s[i] /= s[j]

Catalogs ==
    UNION { {s \in [1..n -> ReleasePool] : NoRepeat(s)} : n \in 0..MaxCatalog }

ChipIds == {24576, 0}
DeviceClasses == {"j456ap", "unknown"}
MacosVers == {<<11, 4>>, <<12, 1>>}
FirmwareVers == {<<7000, 0, 0>>, <<7429, 61, 2>>}
\* template.get("supported_fw", None): no allow-list, or a list of strings
NoAllowList == [given |-> FALSE, vers |-> {}]
AllowLists ==
    {NoAllowList, [given |-> TRUE, vers |-> {<<11, 0>>}], [given |-> TRUE, vers |-> {<<12, 1>>}]}

BootModes == {<<"macOS">>, <<"recoveryOS">>, <<"one", "true", "recoveryOS">>}

UUID_SROS == "SROS"
UUID_FROS == "FROS"
BootVgids == {UUID_SROS, "vgMac"}

Vols == {"vgMac", "vgStub"}

\* "no release yet": the value of self.ipsw before choose_ipsw assigns it
NoIpsw == IPSW(<<>>, <<>>, <<>>, FALSE)

\* What the operator can type at a numbered prompt
Inputs ==
    {[kind |-> "empty", val |-> 0], [kind |-> "junk", val |-> 0]}
    \cup {[kind |-> "int", val |-> n] : n \in 0..(MaxCatalog + 1)}

\* ------------------------------------------------------ partitions and OSes
\* STUB_SIZE = align_up(2500 * 1000 * 1000, 1024 * 1024) = 2500853760 bytes,
\* here and for every partition size in units of 262144 bytes
STUB_SIZE == 9540

\* An OS instance found by osenum; version "" is a missing version
OSInfo(vg, rec, ver) == [vgid |-> vg, rec_vgid |-> rec, version |-> ver]

NoOS == OSInfo("", "", "")

MacOS == OSInfo("vgMac", "recMac", "12.1")

\* A partition as get_partitions and OSEnum.collect leave it
Partition(t, f, sz, oses) == [type |-> t, free |-> f, size |-> sz, os |-> oses]

\* Partitions a system disk is drawn from: the reserved container, free space
\* and empty containers at and just below their thresholds, a container
\* holding macOS, one holding only an OS without a version, and an EFI one
PartPool ==
    { Partition("Apple_APFS_ISC", FALSE, STUB_SIZE, <<>>),
      Partition("", TRUE, STUB_SIZE, <<>>),
      Partition("", TRUE, STUB_SIZE - 1, <<>>),
      Partition("Apple_APFS", FALSE, 9063, <<>>),
      Partition("Apple_APFS", FALSE, 9062, <<>>),
      Partition("Apple_APFS", FALSE, STUB_SIZE, <<MacOS>>),
      Partition("Apple_APFS_Recovery", FALSE, STUB_SIZE, <<OSInfo("vgOld", "recOld", "")>>),
      Partition("EFI", FALSE, STUB_SIZE, <<>>) }

Disks ==
    UNION { {s \in [1..n -> PartPool] : NoRepeat(s)} : n \in 0..MaxParts }

BootUuids == {"vgMac", "recMac", "other"}
LoginUsers == {"unknown", "user"}

\* What the operator can type at a lettered or keyed prompt
Keys == {"", "f", "a", "q", "r", "0", "1", "2", "3"}

VARIABLES
    catalog, chip_id, device_class, sys_firmware, macos_ver, boot_mode,
    boot_vgid, supported_fw,
    nvram_boot, default_boot,
    pc, outcome, exit_status,
    minver, avail, offered, default, reprompted, answer, idx, ipsw, suggested,
    branch, recovery, reboot, bputil_fails, bputil_ok, step2_sh_ok,
    stale_killed, launches, cur_vol, read_diff, picker_killed,
    rename_count, instructions_shown, confirmed, shutdown_issued,
    nvram_writes, pre_ui_vals, at_launch, ui_write, picker_running,
    parts, boot_uuid, login_user,
    parts_free, parts_empty_apfs, parts_system, cur_os, act, part,
    guidance, disk_ops

ctx == <<catalog, chip_id, device_class, sys_firmware, macos_ver, boot_mode,
         boot_vgid, supported_fw>>
resolver == <<minver, avail, offered, default, reprompted, answer, idx, ipsw,
              suggested>>
protocol == <<branch, recovery, reboot, bputil_fails, bputil_ok, step2_sh_ok,
              stale_killed, launches, cur_vol, read_diff, picker_killed,
              rename_count, instructions_shown, confirmed, shutdown_issued,
              picker_running>>
nvram == <<nvram_boot, default_boot, nvram_writes, pre_ui_vals, at_launch,
           ui_write>>
machine == <<parts, boot_uuid, login_user>>
chosen == <<parts_free, parts_empty_apfs, parts_system, cur_os, act, part>>
session == <<machine, chosen, guidance, disk_ops>>
vars == <<ctx, resolver, protocol, nvram, session, pc, outcome, exit_status>>

\* ------------------------------------------------------------------ main()
\* p.type.startswith("Apple_APFS"), on the partition types of the model
StartsWithAppleAPFS(t) == t \in {"Apple_APFS", "Apple_APFS_ISC", "Apple_APFS_Recovery"}

\* p.os and any(os.version for os in p.os)
AnyVersion(p) == \E k \in 1..Len(p.os) : p.os[k].version /= ""

\* The list the first loop of main() appends p to, "none" when it appends it
\* to no list; STUB_SIZE * 0.95 is compared exactly
Classify_FullSize(p) ==
    IF p.type \in {"Apple_APFS_ISC"} THEN "none"
    ELSE IF p.free
         THEN IF p.size >= STUB_SIZE THEN "parts_free" ELSE "none"
    ELSE IF StartsWithAppleAPFS(p.type)
         THEN IF AnyVersion(p) THEN "parts_system"
              ELSE IF p.size >= STUB_SIZE THEN "parts_empty_apfs" ELSE "none"
    ELSE "none"

Classify(p) ==
    IF p.type \in {"Apple_APFS_ISC"} THEN "none"
    ELSE IF p.free
         THEN IF p.size >= STUB_SIZE THEN "parts_free" ELSE "none"
    ELSE IF StartsWithAppleAPFS(p.type)
         THEN IF AnyVersion(p) THEN "parts_system"
              ELSE IF p.size * 100 >= STUB_SIZE * 95 THEN "parts_empty_apfs"
              ELSE "none"
    ELSE "none"

\* The indices (from 1) of the partitions appended to the list  l
Appended(ps, l) == {i \in 1..Len(ps) : Classify(ps[i]) = l}

\* p.desc is None only for a partition the first loop skipped
HasDesc(p) == p.type \notin {"Apple_APFS_ISC"}

\* The (partition type, os) pairs the second loop of main() visits, in order
RECURSIVE Visited(_)
Visited(ps) ==
    IF ps = <<>> THEN <<>>
    ELSE LET p == Head(ps)
             here == IF HasDesc(p)
                     THEN [k \in 1..Len(p.os) |-> [type |-> p.type, os |-> p.os[k]]]
                     ELSE <<>>
         IN  here \o Visited(Tail(ps))

\* self.cur_os and default_os after the visits  es, started from  cur, def
RECURSIVE Scan(_, _, _, _, _, _)
Scan(es, cur, def, bv, bu, db) ==
    IF es = <<>> THEN [cur_os |-> cur, default_os |-> def]
    ELSE LET e == Head(es)
             os == e.os
             cur2 == IF bv = os.vgid /\ bu = os.rec_vgid
                     THEN IF e.type = "APFS" THEN os ELSE cur
                     ELSE IF bu = os.vgid THEN os ELSE cur
             def2 == IF db = os.vgid THEN os ELSE def
         IN  IF os.version = ""
             THEN Scan(Tail(es), cur, def, bv, bu, db)
             ELSE Scan(Tail(es), cur2, def2, bv, bu, db)

\* self.cur_os at line 426: the fallback to default_os included
CurOS(ps, bv, bu, db) ==
    LET r == Scan(Visited(ps), NoOS, NoOS, bv, bu, db)
    IN  IF r.cur_os = NoOS THEN r.default_os ELSE r.cur_os

\* The keys of the dict  actions  ("r" and "m" are behind  and False)
Actions(pf, pe, ps) ==
    IF pf = {} /\ pe = {} THEN {}
    ELSE (IF pf /= {} THEN {"f"} ELSE {}) \cup (IF pe /= {} THEN {"a"} ELSE {})
         \cup {"q"}

\* The status handed to sys.exit
ExitCode_AlwaysZero(why) == 0

ExitCode(why) == IF why = "Quit" THEN 0 ELSE 1

\* main() up to the action prompt
main ==
    /\ pc = "main"
    /\ IF boot_mode = <<"macOS">> /\ login_user = "unknown"
       THEN /\ pc' = "exited"
            /\ outcome' = "NoLoginUser"
            /\ exit_status' = ExitCode("NoLoginUser")
            /\ guidance' = TRUE
            /\ UNCHANGED <<parts_free, parts_empty_apfs, parts_system, cur_os>>
       ELSE /\ parts_free' = Appended(parts, "parts_free")
            /\ parts_empty_apfs' = Appended(parts, "parts_empty_apfs")
            /\ parts_system' = Appended(parts, "parts_system")
            /\ cur_os' = CurOS(parts, boot_vgid, boot_uuid, default_boot)
            /\ IF Actions(parts_free', parts_empty_apfs', parts_system') = {}
               THEN /\ pc' = "exited"
                    /\ outcome' = "NoActions"
                    /\ exit_status' = ExitCode("NoActions")
                    /\ guidance' = TRUE
               ELSE /\ pc' = "action_prompt"
                    /\ UNCHANGED <<outcome, exit_status, guidance>>
    /\ UNCHANGED <<ctx, resolver, protocol, nvram, machine, act, part, disk_ops>>

\* The string at position i (from 0) of enumerate(self.parts)
IndexKey == <<"0", "1", "2", "3">>

\* One round of choice() over a dict: an empty answer stands for the default
\* when there is one, an answer that is no key is asked again
Answer(res, options, dflt) ==
    LET r == IF res = "" /\ dflt /= "" THEN dflt ELSE res
    IN  IF r \in options THEN r ELSE "again"

\* act = self.choice("Action", actions, "q") and the dispatch on it
action_prompt(res) ==
    /\ pc = "action_prompt"
    /\ LET a == Answer(res, Actions(parts_free, parts_empty_apfs, parts_system), "q")
       IN  IF a = "again"
           THEN UNCHANGED <<pc, act, outcome, exit_status>>
           ELSE /\ act' = a
                /\ IF a = "q"
                   THEN /\ pc' = "exited"
                        /\ outcome' = "Quit"
                        /\ exit_status' = ExitCode("Quit")
                   ELSE /\ pc' = "check_cur_os"
                        /\ UNCHANGED <<outcome, exit_status>>
    /\ UNCHANGED <<ctx, resolver, protocol, nvram, machine, parts_free,
                   parts_empty_apfs, parts_system, cur_os, part, guidance, disk_ops>>

\* self.check_cur_os() at the head of both install actions
AfterCheckCurOs_Unchecked(os) == "choose_os"

AfterCheckCurOs(os) == IF os = NoOS THEN "exited" ELSE "choose_os"

check_cur_os ==
    /\ pc = "check_cur_os"
    /\ pc' = AfterCheckCurOs(cur_os)
    /\ IF pc' = "exited"
       THEN /\ outcome' = "NoCurrentOS"
            /\ exit_status' = ExitCode("NoCurrentOS")
            /\ guidance' = TRUE
       ELSE UNCHANGED <<outcome, exit_status, guidance>>
    /\ UNCHANGED <<ctx, resolver, protocol, nvram, machine, chosen, disk_ops>>

\* self.data["os_list"] of installer_data.json, by position
OsList == {1, 2}

\* choose_os: choice() over a list without a default, so that int(res)
\* raises ValueError on an empty answer as on any other non-number
choose_os(res) ==
    /\ pc = "choose_os"
    /\ IF res.kind /= "int"
       THEN /\ pc' = "crashed"
            /\ outcome' = "ValueError"
            /\ exit_status' = 1
       ELSE /\ pc' = IF res.val \in OsList THEN "choose_target" ELSE pc
            /\ UNCHANGED <<outcome, exit_status>>
    /\ UNCHANGED <<ctx, resolver, protocol, nvram, session>>

\* containers / frees: the keys offered at the target prompt
TargetKeys_All(ps, av) == {IndexKey[i] : i \in 1..Len(ps)}

TargetKeys(ps, av) == {IndexKey[i] : i \in av}

\* idx = self.choice("Target container" / "Target area", ...), then
\* self.parts[int(idx)]; the free-space path also asks for a name
choose_target(res) ==
    /\ pc = "choose_target"
    /\ LET av == IF act = "f" THEN parts_free ELSE parts_empty_apfs
           a == Answer(res, TargetKeys(parts, av), "")
       IN  IF a = "again"
           THEN UNCHANGED <<pc, part>>
           ELSE /\ part' = CHOOSE i \in 1..Len(parts) : IndexKey[i] = a
                /\ pc' = "choose_ipsw"
    /\ UNCHANGED <<ctx, resolver, protocol, nvram, machine, parts_free,
                   parts_empty_apfs, parts_system, cur_os, act, guidance, disk_ops,
                   outcome, exit_status>>

\* --------------------------------------------------------------- resolver
\* Python's  w in s  for a string s, on the words of s
WordIn(w, s) == \E i \in 1..Len(s) : s[i] = w

\* minver of choose_ipsw: the eligible releases, in catalog order
Minver(cat, chip, device, fw) ==
    LET chip_min == split_ver(DictGet(CHIP_MIN_VER, chip, <<0>>))
        device_min == split_ver(DictGet(DEVICE_MIN_VER, device, <<0>>))
        Ok(r) == /\ TupleLeq(TupleMax(chip_min, device_min), split_ver(r.version))
                 /\ (~fw.given \/ r.version \in fw.vers)
    IN  SelectSeq(cat, Ok)

\* avail of choose_ipsw: the eligible releases this machine can install
Avail_NoMacosCheck(mv, firmware, macos) ==
    LET Ok(r) == TupleLeq(split_ver(r.min_iboot), split_ver(firmware))
    IN  SelectSeq(mv, Ok)

Avail(mv, firmware, macos) ==
    LET Ok(r) == /\ TupleLeq(split_ver(r.min_iboot), split_ver(firmware))
                 /\ TupleLeq(split_ver(r.min_macos), split_ver(macos))
    IN  SelectSeq(mv, Ok)

\* the release named in "Please upgrade to macOS ... or newer."
SuggestedTarget_Last(mv) == mv[Len(mv)].version

SuggestedTarget(mv) == mv[1].version

\* the default handed to choice() for the version prompt (0-based)
DefaultIndex_First(av) == 0

DefaultIndex(av) == Len(av) - 1

Versions(s) == [i \in 1..Len(s) |-> s[i].version]

\* What follows choose_ipsw in the action that called it: the free-space
\* path creates its partition, the container path goes on to do_install
AfterChooseIpsw(a) == IF a = "f" THEN "addPartition" ELSE "do_install"

choose_ipsw ==
    /\ pc = "choose_ipsw"
    /\ LET mv == Minver(catalog, chip_id, device_class, supported_fw)
           av == Avail(mv, sys_firmware, macos_ver)
       IN  /\ minver' = mv
           /\ avail' = av
           /\ IF av = <<>>
              THEN \* "Your system firmware is too old." is printed, then
                   \* minver[0] is evaluated for the second line
                   IF mv = <<>>
                   THEN \* the uncaught exception ends the interpreter
                        \* with status 1
                        /\ pc' = "crashed"
                        /\ outcome' = "IndexError"
                        /\ exit_status' = 1
                        /\ guidance' = TRUE
                        /\ UNCHANGED suggested
                        /\ UNCHANGED <<offered, default, idx, ipsw>>
                   ELSE /\ pc' = "exited"
                        /\ outcome' = "IncompatibleFirmwareError"
                        /\ exit_status' = 1
                        /\ guidance' = TRUE
                        /\ suggested' = SuggestedTarget(mv)
                        /\ UNCHANGED <<offered, default, idx, ipsw>>
              ELSE IF Len(av) > 1
                   THEN /\ pc' = "choice"
                        /\ offered' = Versions(av)
                        \* choice() numbers a list from 1 and shifts the default
                        /\ default' = DefaultIndex(av) + 1
                        /\ UNCHANGED <<idx, ipsw, outcome, exit_status, suggested,
                                       guidance>>
                   ELSE /\ pc' = AfterChooseIpsw(act)
                        /\ idx' = 0
                        /\ ipsw' = av[1]
                        /\ UNCHANGED <<offered, default, outcome, exit_status,
                                       suggested, guidance>>
    /\ UNCHANGED <<ctx, protocol, nvram, reprompted, answer, machine, chosen,
                   disk_ops>>

\* One round of the input loop of choice() at the version prompt
choice(res) ==
    /\ pc = "choice"
    /\ LET r == IF res.kind = "empty" THEN [kind |-> "int", val |-> default] ELSE res
       IN  IF r.kind = "junk"
           THEN \* int(res) raises ValueError
                /\ pc' = "crashed"
                /\ outcome' = "ValueError"
                /\ UNCHANGED <<idx, ipsw, reprompted, answer>>
           ELSE IF r.val \notin 1..Len(offered)
                THEN \* "Enter one of the following: ..." and ask again
                     /\ reprompted' = TRUE
                     /\ UNCHANGED <<pc, outcome, idx, ipsw, answer>>
                ELSE /\ pc' = AfterChooseIpsw(act)
                     /\ idx' = r.val - 1
                     /\ ipsw' = avail[(r.val - 1) + 1]
                     /\ answer' = res.kind
                     /\ UNCHANGED <<outcome, reprompted>>
    /\ UNCHANGED <<ctx, protocol, nvram, minver, avail, offered,
                   default, suggested>>
    \* an uncaught exception ends the interpreter with status 1
    /\ exit_status' = IF pc' = "crashed" THEN 1 ELSE exit_status
    /\ UNCHANGED session

\* self.part = self.dutil.addPartition(free_part.name, "apfs", label,
\* STUB_SIZE) of action_install_into_free; self.parts is not read again
addPartition ==
    /\ pc = "addPartition"
    /\ disk_ops' = disk_ops \cup {"addPartition"}
    /\ pc' = "do_install"
    /\ UNCHANGED <<ctx, resolver, protocol, nvram, machine, chosen,
                   guidance, outcome, exit_status>>

\* The stub and OS installers run; step2 is the last call of do_install
do_install ==
    /\ pc = "do_install"
    /\ disk_ops' = disk_ops \cup {"prepare_volume", "install_files", "partition_disk"}
    /\ pc' = "step2"
    /\ UNCHANGED <<ctx, resolver, protocol, nvram, machine, chosen, guidance,
                   outcome, exit_status>>

\* ------------------------------------------------- boot-completion protocol
ONE_TRUE_RECOVERY == <<"one", "true", "recoveryOS">>

\* self.is_sfr_recovery, set in main()
is_sfr_recovery == boot_vgid \in {UUID_SROS, UUID_FROS}

\* bootpicker_works of step2
bootpicker_works(macos, rel) == TupleLeq(split_ver(rel.min_macos), split_ver(macos))

\* The if/elif chain of step2
Step2Branch_RecoveryFirst(mode, sfr, paired, works) ==
    IF WordIn("recoveryOS", mode) THEN "ReducedSecurityThenIndirect"
    ELSE IF mode = ONE_TRUE_RECOVERY /\ sfr /\ paired THEN "DirectPairedHandoff"
    ELSE IF works THEN "DirectIndirect"
    ELSE "AssertionError"

Step2Branch(mode, sfr, paired, works) ==
    LET is_1tr == mode = ONE_TRUE_RECOVERY
        is_recovery == WordIn("recoveryOS", mode)
    IN  IF is_1tr /\ sfr /\ paired THEN "DirectPairedHandoff"
        ELSE IF is_recovery THEN "ReducedSecurityThenIndirect"
        ELSE IF works THEN "DirectIndirect"
        ELSE "AssertionError"

step2 ==
    /\ pc = "step2"
    /\ LET b == Step2Branch(boot_mode, is_sfr_recovery, ipsw.paired_sfr,
                            bootpicker_works(macos_ver, ipsw))
       IN  /\ branch' = b
           /\ CASE b = "DirectPairedHandoff" ->
                     /\ pc' = "step2_sh"
                     /\ UNCHANGED <<outcome, recovery, reboot>>
                [] b = "ReducedSecurityThenIndirect" ->
                     /\ pc' = "set_reduced_security"
                     /\ UNCHANGED <<outcome, recovery, reboot>>
                [] b = "DirectIndirect" ->
                     \* self.startup_disk()
                     /\ pc' = "startup_disk"
                     /\ recovery' = FALSE
                     /\ reboot' = FALSE
                     /\ UNCHANGED outcome
                [] OTHER ->
                     /\ pc' = "crashed"
                     /\ outcome' = "AssertionError"
                     /\ UNCHANGED <<recovery, reboot>>
    /\ UNCHANGED <<ctx, resolver, nvram, bputil_fails, bputil_ok,
                   step2_sh_ok, stale_killed, launches, picker_running, cur_vol, read_diff,
                   picker_killed, rename_count, instructions_shown, confirmed,
                   shutdown_issued>>
    \* an uncaught exception ends the interpreter with status 1
    /\ exit_status' = IF pc' = "crashed" THEN 1 ELSE exit_status
    /\ UNCHANGED session

\* subprocess.run([self.ins.step2_sh], check=True), then
\* self.startup_disk(recovery=True, volume_blessed=True, reboot=True)
\* Where step2 goes after the second-stage script: check=True raises
\* CalledProcessError on a non-zero exit status
AfterStep2Sh_Unchecked(rc) == "startup_disk"

AfterStep2Sh(rc) == IF rc = 0 THEN "startup_disk" ELSE "crashed"

step2_sh(rc) ==
    /\ pc = "step2_sh"
    /\ pc' = AfterStep2Sh(rc)
    /\ step2_sh_ok' = (rc = 0)
    /\ IF pc' = "startup_disk"
       THEN /\ recovery' = TRUE
            /\ reboot' = TRUE
            /\ UNCHANGED outcome
       ELSE /\ outcome' = "CalledProcessError"
            /\ UNCHANGED <<recovery, reboot>>
    /\ UNCHANGED <<ctx, resolver, nvram, branch, bputil_fails,
                   bputil_ok, stale_killed, launches, picker_running, cur_vol, read_diff,
                   picker_killed, rename_count, instructions_shown, confirmed,
                   shutdown_issued>>
    \* an uncaught exception ends the interpreter with status 1
    /\ exit_status' = IF pc' = "crashed" THEN 1 ELSE exit_status
    /\ UNCHANGED session

\* set_reduced_security up to its first input(): the announcement
set_reduced_security ==
    /\ pc = "set_reduced_security"
    /\ pc' = "bputil"
    /\ UNCHANGED <<ctx, resolver, protocol, nvram, outcome, exit_status>>
    /\ UNCHANGED session

\* Where set_reduced_security goes after one run of bputil
AfterBputil_Abort(rc) == IF rc = 0 THEN "startup_disk" ELSE "crashed"

AfterBputil(rc) == IF rc = 0 THEN "startup_disk" ELSE "bputil_failed"

\* One run of bputil in the while True loop; on success the loop is left and
\* step2 calls self.startup_disk(recovery=True, volume_blessed=True)
bputil(rc) ==
    /\ pc = "bputil"
    /\ pc' = AfterBputil(rc)
    /\ IF rc = 0
       THEN /\ bputil_ok' = TRUE
            /\ UNCHANGED bputil_fails
       ELSE /\ bputil_fails' = MinNat(bputil_fails + 1, MaxBputilFails)
            /\ UNCHANGED bputil_ok
    /\ IF pc' = "startup_disk"
       THEN recovery' = TRUE /\ reboot' = FALSE
       ELSE UNCHANGED <<recovery, reboot>>
    /\ outcome' = IF pc' = "crashed" THEN "CalledProcessError" ELSE outcome
    /\ UNCHANGED <<ctx, resolver, nvram, branch, step2_sh_ok,
                   stale_killed, launches, picker_running, cur_vol, read_diff, picker_killed,
                   rename_count, instructions_shown, confirmed, shutdown_issued>>
    \* an uncaught exception ends the interpreter with status 1
    /\ exit_status' = IF pc' = "crashed" THEN 1 ELSE exit_status
    /\ UNCHANGED session

\* "Failed to run bputil. Press enter to try again." and the operator's enter
bputil_retry ==
    /\ pc = "bputil_failed"
    /\ pc' = "bputil"
    /\ UNCHANGED <<ctx, resolver, protocol, nvram, outcome, exit_status>>
    /\ UNCHANGED session

\* startup_disk up to the first Popen: the prompt, the operator's enter and,
\* for the preference pane, the killall of stale instances
startup_disk ==
    /\ pc = "startup_disk"
    /\ pc' = "sd_popen"
    /\ stale_killed' = IF recovery THEN stale_killed ELSE TRUE
    /\ UNCHANGED <<ctx, resolver, nvram, outcome, exit_status, branch, recovery,
                   reboot, bputil_fails, bputil_ok, step2_sh_ok, launches, picker_running, cur_vol,
                   read_diff, picker_killed, rename_count, instructions_shown,
                   confirmed, shutdown_issued>>
    /\ UNCHANGED session

\* sd = subprocess.Popen(args, ...)
\* if not recovery: the preference pane is opened a second time
AfterPopen_Once(rec) == "sd_snapshot"

AfterPopen(rec) == IF rec THEN "sd_snapshot" ELSE "sd_wait"

sd_popen ==
    /\ pc = "sd_popen"
    /\ launches' = launches + 1
    /\ picker_running' = picker_running + 1
    /\ pc' = AfterPopen(recovery)
    /\ UNCHANGED <<ctx, resolver, nvram, outcome, exit_status, branch, recovery,
                   reboot, bputil_fails, bputil_ok, step2_sh_ok, stale_killed,
                   cur_vol, read_diff, picker_killed, rename_count,
                   instructions_shown, confirmed, shutdown_issued>>
    /\ UNCHANGED session

\* sd.wait(); time.sleep(0.5); sd = subprocess.Popen(args, ...)
sd_wait ==
    /\ pc = "sd_wait"
    /\ launches' = launches + 1
    /\ picker_running' = (picker_running - 1) + 1
    /\ pc' = "sd_snapshot"
    /\ UNCHANGED <<ctx, resolver, nvram, outcome, exit_status, branch, recovery,
                   reboot, bputil_fails, bputil_ok, step2_sh_ok, stale_killed,
                   cur_vol, read_diff, picker_killed, rename_count,
                   instructions_shown, confirmed, shutdown_issued>>
    /\ UNCHANGED session

\* What step2 does when startup_disk returns
AfterStartupDisk_AlwaysIndirect(b) == "step2_indirect"

AfterStartupDisk(b) ==
    IF b = "DirectPairedHandoff" THEN "returned" ELSE "step2_indirect"

\* The value of  self.sysinfo.default_boot  in  cur_vol = ...: the attribute
\* as last stored by get_nvram_data, not a read of the variable store
SnapshotValue_FreshRead(cached, stored) == stored

SnapshotValue(cached, stored) == cached

\* if not reboot: the polling loop and the end of the picker; with
\* reboot=True startup_disk returns at once
AfterSnapshot_NoPoll(rb, b) == AfterStartupDisk(b)

AfterSnapshot(rb, b) == IF rb THEN AfterStartupDisk(b) ELSE "sd_poll"

\* cur_vol = self.sysinfo.default_boot; with reboot=True startup_disk then
\* returns, and so do step2, do_install and main
sd_snapshot ==
    /\ pc = "sd_snapshot"
    /\ cur_vol' = SnapshotValue(default_boot, nvram_boot)
    /\ pc' = AfterSnapshot(reboot, branch)
    /\ IF pc' = "returned"
       THEN outcome' = "Returned" /\ exit_status' = 0
       ELSE UNCHANGED <<outcome, exit_status>>
    /\ UNCHANGED <<ctx, resolver, nvram, branch, recovery, reboot, bputil_fails,
                   bputil_ok, step2_sh_ok, stale_killed, launches, picker_running, read_diff,
                   picker_killed, rename_count, instructions_shown, confirmed,
                   shutdown_issued>>
    /\ UNCHANGED session

\* The condition of  while self.sysinfo.default_boot == cur_vol
LoopCond_Never(cached, cur) == FALSE

LoopCond(cached, cur) == cached = cur

\* One test of the loop condition and, when it holds, one
\* self.sysinfo.get_nvram_data(), which stores what the variable store holds
sd_poll ==
    /\ pc = "sd_poll"
    /\ IF LoopCond(default_boot, cur_vol)
       THEN /\ default_boot' = nvram_boot
            /\ read_diff' = (read_diff \/ nvram_boot /= cur_vol)
            /\ UNCHANGED pc
       ELSE /\ pc' = "sd_kill"
            /\ UNCHANGED <<default_boot, read_diff>>
    /\ UNCHANGED <<ctx, resolver, nvram_boot, nvram_writes, pre_ui_vals, at_launch,
                   ui_write, outcome,
                   exit_status, branch, recovery, reboot, bputil_fails, bputil_ok,
                   step2_sh_ok, stale_killed, launches, picker_running, cur_vol, picker_killed,
                   rename_count, instructions_shown, confirmed, shutdown_issued>>
    /\ UNCHANGED session

\* The picker processes left once sd.kill(), or the killall of the
\* preference pane and sd.wait(), has run
PickerAfterKill_Leak(n) == n

PickerAfterKill(n) == n - 1

\* sd.kill(), or killall of the preference pane and sd.wait(); startup_disk
\* returns to step2
sd_kill ==
    /\ pc = "sd_kill"
    /\ picker_killed' = TRUE
    /\ picker_running' = PickerAfterKill(picker_running)
    /\ pc' = AfterStartupDisk(branch)
    /\ UNCHANGED <<ctx, resolver, nvram, outcome, exit_status, branch, recovery,
                   reboot, bputil_fails, bputil_ok, step2_sh_ok, stale_killed,
                   launches, cur_vol, read_diff, rename_count,
                   instructions_shown, confirmed, shutdown_issued>>
    /\ UNCHANGED session

\* os.rename of SystemVersion.plist at the head of step2_indirect
step2_indirect(ok) ==
    /\ pc = "step2_indirect"
    /\ rename_count' = rename_count + 1
    /\ IF ok
       THEN pc' = "instructions" /\ UNCHANGED outcome
       ELSE pc' = "crashed" /\ outcome' = "OSError"
    /\ UNCHANGED <<ctx, resolver, nvram, branch, recovery, reboot,
                   bputil_fails, bputil_ok, step2_sh_ok, stale_killed, launches, picker_running,
                   cur_vol, read_diff, picker_killed, instructions_shown,
                   confirmed, shutdown_issued>>
    \* an uncaught exception ends the interpreter with status 1
    /\ exit_status' = IF pc' = "crashed" THEN 1 ELSE exit_status
    /\ UNCHANGED session

\* The printed steps, time.sleep(2), flush_input and the final prompt
instructions ==
    /\ pc = "instructions"
    /\ instructions_shown' = TRUE
    /\ pc' = "confirm"
    /\ UNCHANGED <<ctx, resolver, nvram, outcome, exit_status, branch, recovery,
                   reboot, bputil_fails, bputil_ok, step2_sh_ok, stale_killed,
                   launches, picker_running, cur_vol, read_diff, picker_killed, rename_count,
                   confirmed, shutdown_issued>>
    /\ UNCHANGED session

\* input() returns: the operator pressed enter
confirm ==
    /\ pc = "confirm"
    /\ confirmed' = TRUE
    /\ pc' = "shutdown"
    /\ UNCHANGED <<ctx, resolver, nvram, outcome, exit_status, branch, recovery,
                   reboot, bputil_fails, bputil_ok, step2_sh_ok, stale_killed,
                   launches, picker_running, cur_vol, read_diff, picker_killed, rename_count,
                   instructions_shown, shutdown_issued>>
    /\ UNCHANGED session

\* os.system("shutdown -h now")
shutdown ==
    /\ pc = "shutdown"
    /\ shutdown_issued' = TRUE
    /\ pc' = "halted"
    /\ outcome' = "Shutdown"
    /\ UNCHANGED <<ctx, resolver, nvram, exit_status, branch, recovery, reboot,
                   bputil_fails, bputil_ok, step2_sh_ok, stale_killed, launches, picker_running,
                   cur_vol, read_diff, picker_killed, rename_count,
                   instructions_shown, confirmed>>
    /\ UNCHANGED session

\* ------------------------------------------------------------ environment
Terminal == pc \in {"exited", "crashed", "halted", "returned"}

\* The operator (through any boot picker) or the firmware writes the
\* default-boot variable; pre_ui_vals records the values it held before the
\* installer first launched its picker, at_launch the last of them, ui_write
\* that it was written after that launch.  Writes made while the resolver and
\* the installers run leave the session where a write at step2 leaves it.
NvramWrite(v) ==
    /\ ~Terminal
    /\ pc \notin {"choose_ipsw", "choice", "do_install"}
    /\ nvram_writes < MaxNvramWrites
    /\ v /= nvram_boot
    /\ nvram_boot' = v
    /\ nvram_writes' = nvram_writes + 1
    /\ pre_ui_vals' = IF launches = 0 THEN pre_ui_vals \cup {v} ELSE pre_ui_vals
    /\ at_launch' = IF launches = 0 THEN v ELSE at_launch
    /\ ui_write' = (ui_write \/ launches > 0)
    /\ UNCHANGED <<ctx, resolver, protocol, default_boot, pc, outcome, exit_status>>
    /\ UNCHANGED session

\* ---------------------------------------------------------- specifications
InitCtx ==
    /\ catalog \in Catalogs
    /\ chip_id \in ChipIds
    /\ device_class \in DeviceClasses
    /\ sys_firmware \in FirmwareVers
    /\ macos_ver \in MacosVers
    /\ boot_mode \in BootModes
    /\ boot_vgid \in BootVgids
    /\ supported_fw \in AllowLists

\* Nothing has run yet: no release resolved, no protocol step taken
InitProgram ==
    /\ nvram_writes = 0
    /\ pre_ui_vals = {nvram_boot}
    /\ at_launch = nvram_boot
    /\ ui_write = FALSE
    /\ default_boot = nvram_boot
    /\ picker_running = 0
    /\ outcome = "none"
    /\ exit_status = -1
    /\ minver = <<>>
    /\ avail = <<>>
    /\ offered = <<>>
    /\ default = 0
    /\ reprompted = FALSE
    /\ answer = "none"
    /\ idx = -1
    /\ suggested = <<>>
    /\ branch = "none"
    /\ recovery = FALSE
    /\ reboot = FALSE
    /\ bputil_fails = 0
    /\ bputil_ok = FALSE
    /\ step2_sh_ok = FALSE
    /\ stale_killed = FALSE
    /\ launches = 0
    /\ cur_vol = "unset"
    /\ read_diff = FALSE
    /\ picker_killed = FALSE
    /\ rename_count = 0
    /\ instructions_shown = FALSE
    /\ confirmed = FALSE
    /\ shutdown_issued = FALSE

InitState ==
    /\ nvram_boot = "vgMac"
    /\ InitProgram

\* A machine on which main() chose the install-into-container action: the
\* disk holds the macOS container and one empty container, which is the target
InitContainerPath ==
    /\ parts = <<Partition("Apple_APFS", FALSE, STUB_SIZE, <<MacOS>>),
                 Partition("Apple_APFS", FALSE, STUB_SIZE, <<>>)>>
    /\ boot_uuid = "vgMac"
    /\ login_user = "user"
    /\ parts_free = {}
    /\ parts_empty_apfs = {2}
    /\ parts_system = {1}
    /\ cur_os = MacOS
    /\ act = "a"
    /\ part = 2
    /\ guidance = FALSE
    /\ disk_ops = {}

\* A session at the call of choose_ipsw
Init ==
    /\ InitCtx
    /\ InitState
    /\ InitContainerPath
    /\ ipsw = NoIpsw
    /\ pc = "choose_ipsw"

ResolverNext ==
    \/ choose_ipsw
    \/ \E res \in Inputs : choice(res)
    \/ do_install

ProtocolNext ==
    \/ step2
    \/ \E rc \in {0, 1} : step2_sh(rc)
    \/ set_reduced_security
    \/ \E rc \in {0, 1} : bputil(rc)
    \/ bputil_retry
    \/ startup_disk
    \/ sd_popen
    \/ sd_wait
    \/ sd_snapshot
    \/ sd_poll
    \/ sd_kill
    \/ \E ok \in BOOLEAN : step2_indirect(ok)
    \/ instructions
    \/ confirm
    \/ shutdown
    \/ \E v \in Vols : NvramWrite(v)

Next == ResolverNext \/ ProtocolNext

Spec == Init /\ [][Next]_vars

\* step2 applied to every release and machine context, whether or not the
\* resolver could have produced the pair
InitBranch ==
    /\ ipsw \in ReleasePool
    /\ catalog = <<ipsw>>
    /\ chip_id = 0
    /\ device_class = "unknown"
    /\ supported_fw = NoAllowList
    /\ sys_firmware \in FirmwareVers
    /\ macos_ver \in MacosVers
    /\ boot_mode \in BootModes
    /\ boot_vgid \in BootVgids
    /\ InitState
    /\ InitContainerPath
    /\ pc = "step2"

SpecBranch == InitBranch /\ [][ProtocolNext]_vars

\* A whole session: main() on every disk layout and boot identity, the
\* operator's answers at every prompt, up to the call of step2
InitMain ==
    /\ parts \in Disks
    /\ boot_uuid \in BootUuids
    /\ boot_vgid \in BootVgids
    /\ nvram_boot \in Vols
    /\ boot_mode \in {<<"macOS">>, ONE_TRUE_RECOVERY}
    /\ login_user \in LoginUsers
    \* recoveryOS has no console login
    /\ (boot_mode = ONE_TRUE_RECOVERY) => (login_user = "unknown")
    /\ catalog \in {<<IPSW_12_1>>, <<IPSW(<<11, 0>>, <<11>>, <<7000>>, FALSE), IPSW_12_1>>}
    /\ macos_ver \in MacosVers
    /\ supported_fw \in {NoAllowList, [given |-> TRUE, vers |-> {<<11, 0>>}]}
    /\ sys_firmware = <<7429, 61, 2>>
    /\ chip_id = 0
    /\ device_class = "unknown"
    /\ InitProgram
    /\ ipsw = NoIpsw
    /\ parts_free = {}
    /\ parts_empty_apfs = {}
    /\ parts_system = {}
    /\ cur_os = NoOS
    /\ act = ""
    /\ part = 0
    /\ guidance = FALSE
    /\ disk_ops = {}
    /\ pc = "main"

MainNext ==
    \/ main
    \/ \E res \in Keys : action_prompt(res)
    \/ check_cur_os
    \/ \E res \in Inputs : choose_os(res)
    \/ \E res \in Keys : choose_target(res)
    \/ addPartition

NextMain == MainNext \/ ResolverNext

SpecMain == InitMain /\ [][NextMain]_vars

\* ------------------------------------------------------------ properties
\* The order on versions as the specification words it: component by
\* component, a missing trailing component counting as 0
Field(s, i) == IF i <= Len(s) THEN s[i] ELSE 0

VerLess(a, b) ==
    \E k \in 1..(Len(a) + Len(b)) :
        /\ Field(a, k) < Field(b, k)
        /\ \A j \in 1..(k - 1) : Field(a, j) = Field(b, j)

VerGeq(a, b) == ~VerLess(a, b)

CatalogMembers == {catalog[i] : i \in 1..Len(catalog)}

ChipMin == IF chip_id \in DOMAIN CHIP_MIN_VER THEN CHIP_MIN_VER[chip_id] ELSE <<0>>
DeviceMin ==
    IF device_class \in DOMAIN DEVICE_MIN_VER THEN DEVICE_MIN_VER[device_class]
    ELSE <<0>>

Eligible(r) ==
    /\ VerGeq(r.version, ChipMin)
    /\ VerGeq(r.version, DeviceMin)
    /\ (supported_fw.given => r.version \in supported_fw.vers)

Available(r) ==
    /\ Eligible(r)
    /\ VerGeq(sys_firmware, r.min_iboot)
    /\ VerGeq(macos_ver, r.min_macos)

ResolverDone == pc \notin {"choose_ipsw", "choice"}

AnyRecovery == boot_mode \in {<<"recoveryOS">>, <<"one", "true", "recoveryOS">>}

\* C1: the branch step2 takes is determined by boot mode, paired-recovery
\* session, paired support of the release and OS version >= the release's
\* minimum: paired handoff, else reduced security, else direct indirect,
\* else the internal-invariant violation; and only that branch's steps run.
C1_BranchSelection ==
    branch /= "none" =>
      /\ branch =
           IF boot_mode = <<"one", "true", "recoveryOS">> /\ is_sfr_recovery
              /\ ipsw.paired_sfr
           THEN "DirectPairedHandoff"
           ELSE IF AnyRecovery THEN "ReducedSecurityThenIndirect"
           ELSE IF VerGeq(macos_ver, ipsw.min_macos) THEN "DirectIndirect"
           ELSE "AssertionError"
      /\ branch = "DirectPairedHandoff" =>
           ~bputil_ok /\ bputil_fails = 0 /\ rename_count = 0
      /\ branch = "ReducedSecurityThenIndirect" =>
           ~step2_sh_ok /\ (launches > 0 => recovery)
      /\ branch = "DirectIndirect" =>
           ~step2_sh_ok /\ ~bputil_ok /\ bputil_fails = 0 /\ ~recovery
      /\ branch = "AssertionError" =>
           pc = "crashed" /\ outcome = "AssertionError" /\ launches = 0
      /\ outcome = "AssertionError" => branch = "AssertionError"

C1_Witness ==
    /\ branch = "AssertionError"
    /\ boot_mode = <<"macOS">>
    /\ VerLess(macos_ver, ipsw.min_macos)

\* C2: in a session where choose_ipsw returned the release, step2 never
\* reaches its assert: the release's minimum OS version is at most the
\* running one, so one of the three branches applies.
C2_NeverUnreachable ==
    /\ branch /= "AssertionError"
    /\ outcome /= "AssertionError"
    /\ ipsw /= NoIpsw => VerGeq(macos_ver, ipsw.min_macos)

C2_Witness ==
    /\ branch = "DirectIndirect"
    /\ Len(catalog) > 1
    /\ ipsw \in CatalogMembers
    /\ pc = "startup_disk"

\* C3: a returned release is a catalog member that is eligible and
\* available, and a release is returned whenever some catalog member is.
C3_ResolverReturns ==
    /\ ipsw /= NoIpsw => ipsw \in CatalogMembers /\ Available(ipsw)
    /\ (ResolverDone /\ \E r \in CatalogMembers : Available(r)) => ipsw /= NoIpsw

\* C4: with a non-empty catalog and no eligible release the resolver ends in
\* the incompatible-firmware failure: guidance, exit status 1, no release.
C4_EmptyEligibleFails ==
    (ResolverDone /\ catalog /= <<>> /\ ~\E r \in CatalogMembers : Eligible(r)) =>
      /\ pc = "exited"
      /\ outcome = "IncompatibleFirmwareError"
      /\ exit_status = 1
      /\ ipsw = NoIpsw

EligibleVersions == {r.version : r \in {m \in CatalogMembers : Eligible(m)}}
AvailableVersions == {r.version : r \in {m \in CatalogMembers : Available(m)}}

Lowest(v, S) == v \in S /\ \A w \in S : VerGeq(w, v)
Highest(v, S) == v \in S /\ \A w \in S : VerGeq(v, w)

\* the catalog lists its releases by version ascending
CatalogAscending ==
    \A i, j \in 1..Len(catalog) :
        i < j => VerLess(catalog[i].version, catalog[j].version)

NoneAvailableSomeEligible ==
    /\ ResolverDone
    /\ EligibleVersions /= {}
    /\ AvailableVersions = {}

\* C5 as stated: with nothing available and something eligible the resolver
\* exits for good and suggests the lowest eligible version, whatever the
\* order of the catalog.
C5_SuggestsLowest ==
    NoneAvailableSomeEligible =>
      /\ pc = "exited" /\ exit_status = 1 /\ ipsw = NoIpsw
      /\ Lowest(suggested, EligibleVersions)

\* C5 amended: with nothing available and something eligible the resolver
\* exits for good and suggests the first eligible release in catalog order,
\* which is the lowest eligible version when the catalog is listed by
\* version ascending.
C5_SuggestsFirstEligible ==
    NoneAvailableSomeEligible =>
      /\ pc = "exited" /\ exit_status = 1 /\ ipsw = NoIpsw
      /\ outcome = "IncompatibleFirmwareError"
      /\ \E i \in 1..Len(catalog) :
            /\ Eligible(catalog[i])
            /\ \A j \in 1..(i - 1) : ~Eligible(catalog[j])
            /\ suggested = catalog[i].version
      /\ CatalogAscending => Lowest(suggested, EligibleVersions)

C5_Witness ==
    /\ NoneAvailableSomeEligible
    /\ pc = "exited"
    /\ Cardinality(EligibleVersions) > 1
    /\ CatalogAscending

Prompted == pc = "choice" \/ offered /= <<>>

Ascending(vs) == \A i, j \in 1..Len(vs) : i < j => VerLess(vs[i], vs[j])

\* the releases of the catalog that are available, in catalog order
AvailableInCatalogOrder ==
    LET Ok(r) == Available(r) IN SelectSeq(catalog, Ok)

\* C6 as stated: one available release is taken without a prompt; several
\* are offered by version ascending with the highest as the default that
\* empty input takes, and the release at the chosen position is returned.
C6_PromptAscending ==
    /\ (ResolverDone /\ Cardinality(AvailableVersions) = 1) =>
          ~Prompted /\ ipsw \in CatalogMembers /\ Available(ipsw)
    /\ Prompted =>
          /\ Cardinality(AvailableVersions) > 1
          /\ {offered[i] : i \in 1..Len(offered)} = AvailableVersions
          /\ Ascending(offered)
          /\ Highest(offered[default], AvailableVersions)
    /\ (Prompted /\ ipsw /= NoIpsw) =>
          /\ ipsw = avail[idx + 1] /\ ipsw.version = offered[idx + 1]
          /\ answer = "empty" => Highest(ipsw.version, AvailableVersions)

\* C6 amended: one available release is taken without a prompt; several are
\* offered in catalog order (ascending when the catalog is) with the last
\* offered as the default that empty input takes (the highest when the
\* catalog is ascending), and the release at the chosen position is returned.
C6_PromptCatalogOrder ==
    /\ (ResolverDone /\ Len(AvailableInCatalogOrder) = 1) =>
          ~Prompted /\ ipsw = AvailableInCatalogOrder[1]
    /\ Prompted =>
          /\ Len(AvailableInCatalogOrder) > 1
          /\ offered = [i \in 1..Len(AvailableInCatalogOrder) |->
                           AvailableInCatalogOrder[i].version]
          /\ default = Len(offered)
          /\ CatalogAscending =>
                Ascending(offered) /\ Highest(offered[default], AvailableVersions)
    /\ (Prompted /\ ipsw /= NoIpsw) =>
          /\ ipsw = AvailableInCatalogOrder[idx + 1]
          /\ ipsw.version = offered[idx + 1]
          /\ answer = "empty" => idx + 1 = Len(offered)
          /\ (answer = "empty" /\ CatalogAscending) =>
                Highest(ipsw.version, AvailableVersions)

C6_Witness ==
    /\ Prompted
    /\ answer = "empty"
    /\ CatalogAscending
    /\ ipsw = avail[Len(avail)]
    /\ pc = "do_install"

NonPaired == branch \in {"ReducedSecurityThenIndirect", "DirectIndirect"}

SnapshotTaken == cur_vol /= "unset"

\* C7 as stated: the snapshot cur_vol is taken before the picker is first
\* launched, and holds a value the variable had before the first launch.
C7_SnapshotBeforeLaunch ==
    /\ launches > 0 => SnapshotTaken
    /\ SnapshotTaken => cur_vol \in pre_ui_vals

\* C7 amended: cur_vol is assigned after the picker has been launched (after
\* the relaunch for the preference pane), from the default_boot attribute as
\* stored before the launch, so the value the loop compares against is one
\* the variable held before the operator could act through the picker.
C7_SnapshotAfterLaunch ==
    /\ (launches > 0 /\ pc \in {"sd_popen", "sd_wait", "sd_snapshot"}) => ~SnapshotTaken
    /\ SnapshotTaken =>
          /\ launches = IF recovery THEN 1 ELSE 2
          /\ cur_vol \in pre_ui_vals

C7_Witness ==
    /\ pc = "sd_poll"
    /\ SnapshotTaken
    /\ nvram_boot /= cur_vol
    /\ default_boot = cur_vol
    /\ pre_ui_vals = {cur_vol}

LoopLeft ==
    NonPaired /\ pc \in {"sd_kill", "step2_indirect", "instructions", "confirm",
                         "shutdown", "halted"}

\* C8: in the non-paired branches the loop is left only after a read of the
\* variable differed from the snapshot, then the picker is terminated, then
\* the marker is renamed, then the instructions are shown and confirmation
\* awaited, and shutdown is issued only after the confirmation.
C8_IndirectOrder ==
    NonPaired =>
      /\ LoopLeft => read_diff /\ default_boot /= cur_vol
      /\ picker_killed => read_diff
      /\ rename_count > 0 => picker_killed
      /\ instructions_shown => rename_count > 0
      /\ confirmed => instructions_shown
      /\ shutdown_issued => confirmed
      /\ pc = "step2_indirect" => picker_killed /\ rename_count = 0
      /\ pc = "instructions" => rename_count > 0 /\ ~instructions_shown
      /\ pc = "confirm" => instructions_shown /\ ~confirmed
      /\ pc = "shutdown" => confirmed /\ ~shutdown_issued

C8_Witness ==
    /\ NonPaired
    /\ shutdown_issued
    /\ pc = "halted"

\* C9: the marker rename runs at most once in a session, bputil retries
\* included, and never in the paired-handoff branch.
C9_RenameAtMostOnce ==
    /\ rename_count <= 1
    /\ branch = "DirectPairedHandoff" => rename_count = 0

C9_Witness ==
    /\ branch = "ReducedSecurityThenIndirect"
    /\ bputil_fails > 0
    /\ rename_count = 1

\* C10: in the reduced-security branch a failed run of bputil never ends the
\* session: until a run succeeds the session is at the tool, or at the
\* prompt that leads back to it, however many runs failed; and the picker is
\* launched only after a run succeeded.
C10_BputilRetried ==
    branch = "ReducedSecurityThenIndirect" =>
      /\ ~bputil_ok =>
            /\ pc \in {"set_reduced_security", "bputil", "bputil_failed"}
            /\ launches = 0
      /\ pc = "bputil_failed" => bputil_fails > 0 /\ ~bputil_ok
      /\ outcome /= "CalledProcessError"
      /\ (launches > 0 \/ pc = "startup_disk") => bputil_ok

C10_Witness ==
    /\ branch = "ReducedSecurityThenIndirect"
    /\ bputil_fails = MaxBputilFails
    /\ bputil_ok
    /\ launches > 0

Paired == branch = "DirectPairedHandoff"

\* C11: in the DirectPairedHandoff branch the picker is launched only after
\* the second-stage script has run to completion with exit status 0, the
\* polling loop is never entered (so the picker is never killed on a detected
\* change), and neither the marker rename nor the shutdown is performed.
C11_PairedHandoff ==
    Paired =>
        /\ (pc \in {"startup_disk", "sd_popen", "sd_snapshot"} \/ launches > 0)
               => step2_sh_ok
        /\ pc \notin {"sd_wait", "sd_poll", "sd_kill", "step2_indirect",
                       "instructions", "confirm", "shutdown", "halted"}
        /\ ~read_diff /\ ~picker_killed
        /\ rename_count = 0
        /\ ~instructions_shown /\ ~shutdown_issued

C11_Witness ==
    Paired /\ pc = "returned" /\ launches = 1 /\ step2_sh_ok

\* C12 as stated: whenever the protocol has completed, in any branch, no
\* picker process the protocol launched is still running.
C12_AllProcessesManaged ==
    (branch /= "none" /\ Terminal) => picker_running = 0

\* C12: at most one picker process runs at a time; when the protocol
\* completes in a non-paired branch the picker has been killed and none
\* runs; in the DirectPairedHandoff branch startup_disk returns with the
\* picker it launched still running, neither awaited nor killed.
C12_ManagedUnlessPaired ==
    /\ picker_running \in {0, 1}
    /\ (branch /= "none" /\ Terminal) =>
           (picker_running = 1 <=> (Paired /\ pc = "returned"))
    /\ (NonPaired /\ Terminal /\ launches > 0) => picker_killed

C12_Witness ==
    /\ NonPaired /\ pc = "halted" /\ picker_killed /\ picker_running = 0
    /\ launches = 2

\* C13 as stated: the boot-completion sequence, once started, ends only in
\* the reboot handoff or in the shutdown.
C13_EndsInRebootOrShutdown ==
    (branch /= "none" /\ Terminal) => pc \in {"returned", "halted"}

\* C13: the boot-completion sequence ends in exactly one of four ways: the
\* shutdown command, issued in a non-paired branch after the polling loop
\* was left and the picker killed; the return of startup_disk in the
\* DirectPairedHandoff branch with the picker left open for the operator
\* to restart from; CalledProcessError from a second-stage script that
\* exited non-zero, before any picker was launched; or OSError from the
\* marker rename.  A restart is never issued by the installer itself.
C13_ProtocolEndings ==
    (branch /= "none" /\ Terminal) =>
        \/ /\ pc = "halted" /\ shutdown_issued /\ NonPaired
           /\ picker_killed /\ rename_count = 1
        \/ /\ pc = "returned" /\ Paired /\ launches = 1 /\ ~shutdown_issued
        \/ /\ pc = "crashed" /\ outcome = "CalledProcessError" /\ Paired
           /\ launches = 0
        \/ /\ pc = "crashed" /\ outcome = "OSError" /\ NonPaired
           /\ rename_count = 1 /\ ~shutdown_issued

C13_Witness ==
    pc = "crashed" /\ outcome = "CalledProcessError" /\ Paired

\* C18: for the preference-pane picker (recovery = FALSE) a running
\* preference UI is killed before the first launch and, by the time the
\* snapshot is taken and the polling loop starts, the launch has been issued
\* exactly twice; for the recovery picker it has been issued exactly once
\* and nothing was killed beforehand.
C18_LaunchCount ==
    /\ (launches > 0 /\ ~recovery) => stale_killed
    /\ recovery => ~stale_killed
    /\ SnapshotTaken => launches = (IF recovery THEN 1 ELSE 2)
    /\ (pc = "sd_wait") => (~recovery /\ launches = 1)

C18_Witness ==
    pc = "sd_poll" /\ ~recovery /\ launches = 2 /\ stale_killed

\* ------------------------------------------------- properties of a session
\* main() got as far as classifying the partitions
Classified == pc /= "main" /\ outcome /= "NoLoginUser"

Reserved(p) == p.type = "Apple_APFS_ISC"

ApfsContainer(p) == ~p.free /\ p.type \in {"Apple_APFS", "Apple_APFS_Recovery"}

Versioned(p) == \E k \in DOMAIN p.os : p.os[k].version /= ""

Categories(i) ==
    {c \in {"free", "empty", "system"} :
        \/ c = "free" /\ i \in parts_free
        \/ c = "empty" /\ i \in parts_empty_apfs
        \/ c = "system" /\ i \in parts_system}

\* C14: a free partition is offered as a free-space target exactly when its
\* size is at least STUB_SIZE; an APFS-family container without a versioned
\* OS is offered as an empty container exactly when its size is at least
\* 0.95 x STUB_SIZE; nothing else is offered, and no partition is in more
\* than one of the three categories.
C14_Classification ==
    Classified =>
        \A i \in 1..Len(parts) :
            LET p == parts[i]
            IN  /\ (p.free /\ ~Reserved(p)) =>
                       (i \in parts_free <=> p.size >= STUB_SIZE)
                /\ (ApfsContainer(p) /\ ~Versioned(p)) =>
                       (i \in parts_empty_apfs <=> p.size * 100 >= STUB_SIZE * 95)
                /\ i \in parts_free => (p.free /\ ~Reserved(p))
                /\ i \in parts_empty_apfs => (ApfsContainer(p) /\ ~Versioned(p))
                /\ i \in parts_system => (ApfsContainer(p) /\ Versioned(p))
                /\ Cardinality(Categories(i)) <= 1

C14_Witness ==
    /\ Classified
    /\ \E i, j \in 1..Len(parts) :
          /\ parts[i].free /\ parts[i].size = STUB_SIZE /\ i \in parts_free
          /\ ApfsContainer(parts[j]) /\ parts[j].size * 100 < STUB_SIZE * 95
          /\ j \notin parts_empty_apfs

TargetChosen == part /= 0

\* C15: the chosen target is never a partition of the reserved type and
\* never a container with a versioned OS: on the container path it is an
\* APFS-family container without a versioned OS of at least 0.95 x
\* STUB_SIZE, on the free-space path a free partition of at least STUB_SIZE,
\* whatever the operator answers.
C15_TargetEligible ==
    TargetChosen =>
        LET p == parts[part]
        IN  /\ ~Reserved(p)
            /\ ~Versioned(p)
            /\ act = "a" => /\ part \in parts_empty_apfs
                            /\ ApfsContainer(p)
                            /\ p.size * 100 >= STUB_SIZE * 95
            /\ act = "f" => /\ part \in parts_free
                            /\ p.free
                            /\ p.size >= STUB_SIZE
            /\ act \in {"a", "f"}

C15_Witness ==
    /\ TargetChosen /\ act = "a"
    /\ \E i \in 1..Len(parts) : Versioned(parts[i]) /\ i /= part

\* C16: a versioned OS instance whose volume-group id is the booted id is
\* the current OS, and so is one whose recovery pairing is the booted id
\* (the machine running that instance's paired recovery).
C16_CurrentOS ==
    Classified =>
        \A i \in 1..Len(parts) : \A k \in 1..Len(parts[i].os) :
            LET os == parts[i].os[k]
            IN  (~Reserved(parts[i]) /\ os.version /= "") =>
                    /\ boot_uuid = os.vgid => cur_os = os
                    /\ (boot_vgid = os.vgid /\ boot_uuid = os.rec_vgid)
                           => cur_os = os

FirmwareFailed == outcome \in {"IncompatibleFirmwareError", "IndexError"}

\* C17: a voluntary quit exits with status 0; no determinable current OS,
\* no compatible firmware and no available actions each end the session
\* with status 1 after guidance text was printed.
C17_ExitStatus ==
    /\ act = "q" => (pc = "exited" /\ outcome = "Quit" /\ exit_status = 0)
    /\ outcome = "Quit" => act = "q"
    /\ (Classified /\ parts_free = {} /\ parts_empty_apfs = {})
           => (pc = "exited" /\ outcome = "NoActions")
    /\ (act \in {"a", "f"} /\ cur_os = NoOS /\ pc /= "check_cur_os")
           => (pc = "exited" /\ outcome = "NoCurrentOS")
    /\ (TargetChosen /\ pc /= "choose_ipsw"
           /\ ~\E r \in CatalogMembers : Available(r))
           => (Terminal /\ FirmwareFailed)
    /\ (outcome \in {"NoActions", "NoCurrentOS"} \/ FirmwareFailed)
           => (Terminal /\ exit_status = 1 /\ guidance)

C17_Witness ==
    pc = "exited" /\ outcome = "NoCurrentOS" /\ exit_status = 1 /\ guidance

\* C20: a session that ends in a fatal precondition failure or a voluntary
\* quit has invoked no disk-modifying operation; the first such operation
\* comes after the current-OS check passed and a release was resolved, and
\* a partition is created on the free-space path only.
C20_NoDiskOpBeforeFailure ==
    /\ (outcome \in {"Quit", "NoActions", "NoCurrentOS", "NoLoginUser"}
            \/ FirmwareFailed) => disk_ops = {}
    /\ disk_ops /= {} => /\ cur_os /= NoOS
                         /\ ipsw /= NoIpsw
                         /\ TargetChosen
    /\ "addPartition" \in disk_ops => act = "f"
    /\ pc = "step2" =>
           disk_ops = {"prepare_volume", "install_files", "partition_disk"}
                      \cup (IF act = "f" THEN {"addPartition"} ELSE {})

C20_Witness ==
    /\ pc = "exited" /\ outcome = "IncompatibleFirmwareError"
    /\ act = "f" /\ TargetChosen /\ disk_ops = {}

\* The polling loop cannot end while the variable keeps its value: the
\* stored default_boot equals cur_vol, and so will every refresh of it
LoopBlocked ==
    pc = "sd_poll" /\ default_boot = cur_vol /\ nvram_boot = cur_vol

\* C19: in a non-paired branch, once the operator has changed the
\* default-boot variable after the first launch of the picker, to a value
\* other than the one it held at that launch, the polling loop is never
\* in a state it cannot leave while the variable keeps that value.
C19_ChangeEndsLoop ==
    (NonPaired /\ ui_write /\ nvram_boot /= at_launch) => ~LoopBlocked

====
